---- MODULE Spec2Model ----
(***************************************************************************)
(* CAN CRC-15 calculator (polynomial 0x4599): the bit-serial and the       *)
(* table-driven engine, the text parsers, the batch runner with its        *)
(* parallel workers, and the two front-ends' validation.                   *)
(*                                                                         *)
(* The library has several entry points, so the model has one              *)
(* specification per entry point, all over the same variables:             *)
(*   SpecCrc    calculate_can_crc and calculate_can_crc_optimized, stepwise *)
(*   SpecStep   one table step against eight bit-serial steps              *)
(*   SpecParse  parse_binary_input and parse_hex_input                     *)
(*   SpecBatch  compute_batch_crcs_optimized and its workers               *)
(*   SpecFront  the CLI prompt loop and the GUI's calculate_crc            *)
(*   SpecEngine SpecCrc and SpecBatch together                             *)
(* A variable group that a specification does not use keeps its idle value.*)
(***************************************************************************)
EXTENDS Integers, Sequences, FiniteSets, TLC

VARIABLES
    bits,         \* the &[bool] argument of the engine / batch call
    pc,           \* SpecCrc: which loop of which engine function is running
    i,            \* SpecCrc: loop index (bit index, or byte index in the table loop)
    crc_rg,       \* SpecCrc: the running function's register (u16)
    ref_result,   \* value returned by calculate_can_crc, -1 before it returns
    opt_result,   \* value returned by calculate_can_crc_optimized, -1 before
    step,         \* SpecStep: [r, byte, tbl, ser, j]
    bin_text,     \* SpecParse: the text given to parse_binary_input
    hex_text,     \* SpecParse: the text given to parse_hex_input
    src_bytes,    \* SpecParse: the byte string both texts render, <<>> if none
    bin_parsed,   \* SpecParse: what parse_binary_input returned
    hex_parsed,   \* SpecParse: what parse_hex_input returned
    iterations,   \* the u64 argument of compute_batch_crcs_optimized
    num_threads,  \* rayon::current_num_threads()
    batch_pc,     \* "idle", "entry", "parallel", "returned"
    result,       \* the AtomicU16 result slot of the parallel path
    workers,      \* thread_idx -> [pc, start, end, local_crc, calls, stores]
    seq_calls,    \* engine computations done on the calling thread
    batch_ret,    \* value returned by compute_batch_crcs_optimized, -1 before
    frontend,     \* SpecFront: which binary runs, "cli" or "gui"
    cli,          \* SpecFront: the prompt loop's position and the lines read
    gui           \* SpecFront: the fields of CanCrcApp

crcVars == <<pc, i, crc_rg, ref_result, opt_result>>
parseVars == <<bin_text, hex_text, src_bytes, bin_parsed, hex_parsed>>
batchVars == <<iterations, num_threads, batch_pc, result, workers, seq_calls, batch_ret>>
frontVars == <<frontend, cli, gui>>
vars == <<bits, crcVars, step, parseVars, batchVars, frontVars>>

(***************************************************************************)
(* Bounds of the model.                                                    *)
(***************************************************************************)
\* every bit sequence of length 0..MaxBits is an engine input
MaxBits == 12
\* every repeated pattern of length 1..MaxPattern, cut to each length 0..MAX_BITS,
\* is an engine input
MaxPattern == 4
\* SpecStep starts from the registers 0..MaxReg, 0x7FFF-MaxReg..0x7FFF and 2^k
MaxReg == 15

(***************************************************************************)
(* Program constants.                                                      *)
(***************************************************************************)
CAN_POLY == 17817
MAX_BITS == 96

(***************************************************************************)
(* u16 / u8 arithmetic.                                                    *)
(***************************************************************************)
RECURSIVE Pow2(_)
Pow2(n) == IF n = 0 THEN 1 ELSE 2 * Pow2(n - 1)

RECURSIVE BitXor(_, _)
BitXor(a, b) ==
    IF a = 0 THEN b
    ELSE IF b = 0 THEN a
    ELSE (((a % 2) + (b % 2)) % 2) + 2 * BitXor(a \div 2, b \div 2)

RECURSIVE BitAnd(_, _)
BitAnd(a, b) ==
    IF a = 0 \/ b = 0 THEN 0
    ELSE ((a % 2) * (b % 2)) + 2 * BitAnd(a \div 2, b \div 2)

RECURSIVE BitOr(_, _)
BitOr(a, b) ==
    IF a = 0 THEN b
    ELSE IF b = 0 THEN a
    ELSE (IF a % 2 = 1 \/ b % 2 = 1 THEN 1 ELSE 0) + 2 * BitOr(a \div 2, b \div 2)

\* x << n in a u16: the bits shifted past bit 15 are lost
Shl16(x, n) == (x * Pow2(n)) % 65536
\* x << n in a u8
Shl8(x, n) == (x * Pow2(n)) % 256
Shr(x, n) == x \div Pow2(n)

(***************************************************************************)
(* The bit-serial step, the table and the table step.                      *)
(***************************************************************************)
\* the feedback taken from CRC_RG(13) instead of CRC_RG(14)
BitStepTap13(crc, nxtbit) ==
    LET crcnxt == nxtbit # (BitAnd(Shr(crc, 13), 1) = 1)
        shifted == BitAnd(Shl16(crc, 1), 32767)
    IN  IF crcnxt THEN BitXor(shifted, CAN_POLY) ELSE shifted

\* the feedback taken as NXTBIT = CRC_RG(14) instead of their exclusive or
BitStepFlipped(crc, nxtbit) ==
    LET crcnxt == nxtbit = (BitAnd(Shr(crc, 14), 1) = 1)
        shifted == BitAnd(Shl16(crc, 1), 32767)
    IN  IF crcnxt THEN BitXor(shifted, CAN_POLY) ELSE shifted

\* lib.rs 137-145 (and 175-180): one input bit
BitStep(crc, nxtbit) ==
    LET crcnxt == nxtbit # (BitAnd(Shr(crc, 14), 1) = 1)
        shifted == BitAnd(Shl16(crc, 1), 32767)
    IN  IF crcnxt THEN BitXor(shifted, CAN_POLY) ELSE shifted

\* lib.rs 195-202: the inner loop of generate_crc_table, from j to 8
RECURSIVE TableShift(_, _)
TableShift(crc, j) ==
    IF j < 8
    THEN TableShift(IF BitAnd(crc, 16384) # 0
                    THEN BitAnd(BitXor(Shl16(crc, 1), CAN_POLY), 32767)
                    ELSE BitAnd(Shl16(crc, 1), 32767),
                    j + 1)
    ELSE crc

\* the table seeded with i << 8 instead of i << 7
TableEntrySeed8(n) == TableShift(Shl16(n, 8), 0)

\* lib.rs 192-204: table[i]
TableEntry(n) == TableShift(Shl16(n, 7), 0)

\* lib.rs 187-209
generate_crc_table == [n \in 0..255 |-> TableEntry(n)]

\* lib.rs 154
CRC_TABLE == generate_crc_table

\* lib.rs 161-166: the i-th byte of the input, most-significant bit first
RECURSIVE PackBits(_, _, _, _)
PackBits(bs, k, j, byte) ==
    IF j < 8
    THEN PackBits(bs, k, j + 1,
                  IF bs[k * 8 + j + 1] THEN BitOr(byte, Shl8(1, 7 - j)) ELSE byte)
    ELSE byte

PackByte(bs, k) == PackBits(bs, k, 0, 0)

\* the table step with the index taken from crc_rg >> 8
ByteStepIdx8(crc, byte) ==
    LET tbl_idx == BitXor(Shr(crc, 8), byte) % 256
    IN  BitAnd(BitXor(Shl16(crc, 8), CRC_TABLE[tbl_idx]), 32767)

\* the table step without the final & 0x7FFF
ByteStepNoMask(crc, byte) ==
    LET tbl_idx == BitXor(Shr(crc, 7), byte) % 256
    IN  BitXor(Shl16(crc, 8), CRC_TABLE[tbl_idx])

\* lib.rs 169-170: one input byte
ByteStep(crc, byte) ==
    LET tbl_idx == BitXor(Shr(crc, 7), byte) % 256
    IN  BitAnd(BitXor(Shl16(crc, 8), CRC_TABLE[tbl_idx]), 32767)

(***************************************************************************)
(* The engines as functions of their input (used by the batch workers).    *)
(***************************************************************************)
RECURSIVE BitLoop(_, _, _)
\* for i in from..bits.len(): the bit-serial step (lib.rs 135-146, 174-181)
BitLoop(bs, k, crc) ==
    IF k < Len(bs) THEN BitLoop(bs, k + 1, BitStep(crc, bs[k + 1])) ELSE crc

RECURSIVE ByteLoop(_, _, _)
\* for i in 0..full_bytes (lib.rs 160-171)
ByteLoop(bs, k, crc) ==
    IF k < Len(bs) \div 8
    THEN ByteLoop(bs, k + 1, ByteStep(crc, PackByte(bs, k)))
    ELSE crc

calculate_can_crc(bs) == BitLoop(bs, 0, 0)

calculate_can_crc_optimized(bs) ==
    BitLoop(bs, (Len(bs) \div 8) * 8, ByteLoop(bs, 0, 0))

(***************************************************************************)
(* Inputs of the engine specifications.                                    *)
(***************************************************************************)
RECURSIVE BitSeqs(_)
\* all bit sequences of length exactly n
BitSeqs(n) ==
    IF n = 0 THEN {<<>>}
    ELSE {Append(s, b) : s \in BitSeqs(n - 1), b \in BOOLEAN}

BitSeqsUpTo(n) == UNION {BitSeqs(k) : k \in 0..n}

\* pattern p repeated and cut to length n
Repeat(p, n) == [k \in 1..n |-> p[((k - 1) % Len(p)) + 1]]

CrcInputs ==
    BitSeqsUpTo(MaxBits)
    \cup {Repeat(p, n) : p \in BitSeqsUpTo(MaxPattern) \ {<<>>}, n \in 0..MAX_BITS}

StepRegs ==
    (0..MaxReg) \cup {32767 - k : k \in 0..MaxReg} \cup {Pow2(k) : k \in 0..14}

(***************************************************************************)
(* The idle values of the variable groups.                                 *)
(***************************************************************************)
\* a parser that has not been called yet
Unparsed == [ok |-> FALSE, err |-> "unparsed", bits |-> <<>>, chars |-> <<>>, count |-> 0]

\* no parser call is being modelled
ParseOff == [ok |-> FALSE, err |-> "off", bits |-> <<>>, chars |-> <<>>, count |-> 0]

StepIdle == step = [r |-> 0, byte |-> 0, tbl |-> -1, ser |-> 0, j |-> 8]

CrcIdle == pc = "idle" /\ i = 0 /\ crc_rg = 0 /\ ref_result = -1 /\ opt_result = -1

ParseIdle ==
    /\ bin_text = <<>>
    /\ hex_text = <<>>
    /\ src_bytes = <<>>
    /\ bin_parsed = ParseOff
    /\ hex_parsed = ParseOff

BatchIdle ==
    /\ iterations = 0
    /\ num_threads = 0
    /\ batch_pc = "idle"
    /\ result = 0
    /\ workers = <<>>
    /\ seq_calls = 0
    /\ batch_ret = -1

FrontIdle == frontend = "none" /\ cli = <<>> /\ gui = <<>>

(***************************************************************************)
(* SpecCrc: calculate_can_crc(bits), then calculate_can_crc_optimized(bits)*)
(***************************************************************************)
\* lib.rs 132-133: the reference engine is entered with register 0
InitCrc ==
    /\ bits \in CrcInputs
    /\ pc = "ref_loop"
    /\ i = 0
    /\ crc_rg = 0
    /\ ref_result = -1
    /\ opt_result = -1
    /\ StepIdle
    /\ ParseIdle
    /\ BatchIdle
    /\ FrontIdle

\* lib.rs 135-146
RefBitStep ==
    /\ pc = "ref_loop"
    /\ i < Len(bits)
    /\ crc_rg' = BitStep(crc_rg, bits[i + 1])
    /\ i' = i + 1
    /\ UNCHANGED <<bits, pc, ref_result, opt_result, step, parseVars, batchVars, frontVars>>

\* lib.rs 148, then 152-159: the reference returns; the optimized engine is entered
RefReturn ==
    /\ pc = "ref_loop"
    /\ i = Len(bits)
    /\ ref_result' = crc_rg
    /\ crc_rg' = 0
    /\ i' = 0
    /\ pc' = "opt_bytes"
    /\ UNCHANGED <<bits, opt_result, step, parseVars, batchVars, frontVars>>

\* lib.rs 160-171
OptByteStep ==
    /\ pc = "opt_bytes"
    /\ i < Len(bits) \div 8
    /\ crc_rg' = ByteStep(crc_rg, PackByte(bits, i))
    /\ i' = i + 1
    /\ UNCHANGED <<bits, pc, ref_result, opt_result, step, parseVars, batchVars, frontVars>>

\* lib.rs 171-174: the byte loop ends, the trailing-bit loop starts at full_bytes * 8
OptBytesDone ==
    /\ pc = "opt_bytes"
    /\ i = Len(bits) \div 8
    /\ i' = (Len(bits) \div 8) * 8
    /\ pc' = "opt_bits"
    /\ UNCHANGED <<bits, crc_rg, ref_result, opt_result, step, parseVars, batchVars, frontVars>>

\* lib.rs 174-181
OptBitStep ==
    /\ pc = "opt_bits"
    /\ i < Len(bits)
    /\ crc_rg' = BitStep(crc_rg, bits[i + 1])
    /\ i' = i + 1
    /\ UNCHANGED <<bits, pc, ref_result, opt_result, step, parseVars, batchVars, frontVars>>

\* lib.rs 183
OptReturn ==
    /\ pc = "opt_bits"
    /\ i = Len(bits)
    /\ opt_result' = crc_rg
    /\ pc' = "done"
    /\ UNCHANGED <<bits, i, crc_rg, ref_result, step, parseVars, batchVars, frontVars>>

NextCrc ==
    \/ RefBitStep
    \/ RefReturn
    \/ OptByteStep
    \/ OptBytesDone
    \/ OptBitStep
    \/ OptReturn

SpecCrc == InitCrc /\ [][NextCrc]_vars

(***************************************************************************)
(* SpecFrame: calculate_can_crc runs on a payload, the 15 bits of its      *)
(* result are appended, and both engines run on the payload with its CRC,  *)
(* as a CAN receiver runs them over a received frame.                      *)
(***************************************************************************)
\* every payload of length 1..MaxPayload is framed
MaxPayload == 8

\* lib.rs 139: the register has bits 14..0
CRC_BITS == 15

\* the register's bits, bit 14 first
Crc15Bits(c) == [k \in 1..CRC_BITS |-> BitAnd(Shr(c, CRC_BITS - k), 1) = 1]

\* payloads of 1 .. MAX_BITS - CRC_BITS = 81 bits
FramePayloads ==
    (BitSeqsUpTo(MaxPayload) \ {<<>>})
    \cup {Repeat(p, n) : p \in BitSeqsUpTo(MaxPattern) \ {<<>>},
                         n \in 1..(MAX_BITS - CRC_BITS)}

InitFrame ==
    /\ bits \in FramePayloads
    /\ pc = "payload_loop"
    /\ i = 0
    /\ crc_rg = 0
    /\ ref_result = -1
    /\ opt_result = -1
    /\ StepIdle
    /\ ParseIdle
    /\ BatchIdle
    /\ FrontIdle

\* lib.rs 135-146: calculate_can_crc on the payload
PayloadBitStep ==
    /\ pc = "payload_loop"
    /\ i < Len(bits)
    /\ crc_rg' = BitStep(crc_rg, bits[i + 1])
    /\ i' = i + 1
    /\ UNCHANGED <<bits, pc, ref_result, opt_result, step, parseVars, batchVars, frontVars>>

\* lib.rs 148: calculate_can_crc returns the payload's CRC; its 15 bits are
\* appended and the reference engine is entered on the result
PayloadReturn ==
    /\ pc = "payload_loop"
    /\ i = Len(bits)
    /\ bits' = bits \o Crc15Bits(crc_rg)
    /\ crc_rg' = 0
    /\ i' = 0
    /\ pc' = "ref_loop"
    /\ UNCHANGED <<ref_result, opt_result, step, parseVars, batchVars, frontVars>>

NextFrame ==
    \/ PayloadBitStep
    \/ PayloadReturn
    \/ RefBitStep
    \/ RefReturn
    \/ OptByteStep
    \/ OptBytesDone
    \/ OptBitStep
    \/ OptReturn

SpecFrame == InitFrame /\ [][NextFrame]_vars

(***************************************************************************)
(* SpecStep: from any register r, the table step for byte B and the eight  *)
(* bit-serial steps for B's bits.                                          *)
(***************************************************************************)
InitStep ==
    /\ \E r \in StepRegs, B \in 0..255 :
          step = [r |-> r, byte |-> B, tbl |-> -1, ser |-> r, j |-> 0]
    /\ bits = <<>>
    /\ CrcIdle
    /\ ParseIdle
    /\ BatchIdle
    /\ FrontIdle

\* lib.rs 169-170 applied to register r and byte B
StepTable ==
    /\ step.tbl = -1
    /\ step.j = 0
    /\ step' = [step EXCEPT !.tbl = ByteStep(step.r, step.byte)]
    /\ UNCHANGED <<bits, crcVars, parseVars, batchVars, frontVars>>

\* lib.rs 137-145 applied to bit 7-j of B
StepSerial ==
    /\ step.tbl # -1
    /\ step.j < 8
    /\ step' = [step EXCEPT
                  !.ser = BitStep(step.ser, BitAnd(Shr(step.byte, 7 - step.j), 1) = 1),
                  !.j = step.j + 1]
    /\ UNCHANGED <<bits, crcVars, parseVars, batchVars, frontVars>>

NextStep ==
    \/ StepTable
    \/ StepSerial

SpecStep == InitStep /\ [][NextStep]_vars

(***************************************************************************)
(* Text.  A string is a sequence of characters; a character is named by    *)
(* a one-character string, and "U+FB00" names the single character LATIN   *)
(* SMALL LIGATURE FF.                                                      *)
(***************************************************************************)
\* every text of length 0..MaxText over TextChars is a parser input
MaxText == 3
\* every text of length 0..MaxPrefix followed by a run of 0..MaxRun digits too
MaxPrefix == 1
MaxRun == 98
\* every byte string of length 1..MaxByteString over ByteSamples is rendered
MaxByteString == 2

MAX_BYTES == 12

HexDigits == <<"0", "1", "2", "3", "4", "5", "6", "7",
               "8", "9", "A", "B", "C", "D", "E", "F">>
LowerHex == <<"0", "1", "2", "3", "4", "5", "6", "7",
              "8", "9", "a", "b", "c", "d", "e", "f">>

TextChars == {"0", "1", "2", "b", "F", "g", " ", "U+FB00"}
ByteSamples == {0, 1, 90, 128, 171, 255}

\* char::is_whitespace
IsWhitespace(c) == c \in {" ", "\t", "\n"}

\* char::is_ascii_hexdigit
IsAsciiHexdigit(c) ==
    \E k \in 1..16 : c = HexDigits[k] \/ c = LowerHex[k]

\* char::is_ascii_digit
IsAsciiDigit(c) == \E k \in 1..10 : c = HexDigits[k]

\* char::to_uppercase: the characters one character upper-cases to.  ASCII
\* letters map to their capitals; U+FB00 maps to the two characters "FF"
\* (Unicode SpecialCasing); digits and whitespace map to themselves.
CharToUppercase(c) ==
    IF \E k \in 11..16 : c = LowerHex[k]
    THEN <<HexDigits[CHOOSE k \in 11..16 : c = LowerHex[k]]>>
    ELSE IF c = "g" THEN <<"G">>
    ELSE IF c = "x" THEN <<"X">>
    ELSE IF c = "U+FB00" THEN <<"F", "F">>
    ELSE <<c>>

RECURSIVE to_uppercase(_)
\* str::to_uppercase
to_uppercase(s) ==
    IF s = <<>> THEN <<>> ELSE CharToUppercase(Head(s)) \o to_uppercase(Tail(s))

RECURSIVE TrimStart(_)
TrimStart(s) ==
    IF s # <<>> /\ IsWhitespace(Head(s)) THEN TrimStart(Tail(s)) ELSE s

RECURSIVE TrimEnd(_)
TrimEnd(s) ==
    IF s # <<>> /\ IsWhitespace(s[Len(s)])
    THEN TrimEnd(SubSeq(s, 1, Len(s) - 1))
    ELSE s

\* str::trim
Trim(s) == TrimEnd(TrimStart(s))

\* Iterator::take(n)
Take(s, n) == SubSeq(s, 1, IF Len(s) < n THEN Len(s) ELSE n)

Ok(bs) == [ok |-> TRUE, err |-> "", bits |-> bs, chars |-> <<>>, count |-> 0]
Err(kind, chars, count) ==
    [ok |-> FALSE, err |-> kind, bits |-> <<>>, chars |-> chars, count |-> count]

IsBinInvalid(c) == ~IsWhitespace(c) /\ c # "0" /\ c # "1"
IsBinDigit(c) == c = "0" \/ c = "1"

\* the length check written as >= 96
parse_binary_input_ge(input) ==
    IF Trim(input) = <<>> THEN Err("EmptyInput", <<>>, 0)
    ELSE LET invalid_chars == SelectSeq(input, IsBinInvalid)
             cleaned == SelectSeq(input, IsBinDigit)
         IN  IF invalid_chars # <<>>
             THEN Err("InvalidCharacter", Take(invalid_chars, 5), 0)
             ELSE IF cleaned = <<>> THEN Err("EmptyInput", <<>>, 0)
             ELSE IF Len(cleaned) >= MAX_BITS
             THEN Err("TooLong", <<>>, Len(cleaned))
             ELSE Ok([k \in 1..Len(cleaned) |-> cleaned[k] = "1"])

\* lib.rs 26-62.  The two "empty" messages (28, 49) are both EmptyInput.
parse_binary_input(input) ==
    IF Trim(input) = <<>> THEN Err("EmptyInput", <<>>, 0)
    ELSE LET invalid_chars == SelectSeq(input, IsBinInvalid)
             cleaned == SelectSeq(input, IsBinDigit)
         IN  IF invalid_chars # <<>>
             THEN Err("InvalidCharacter", Take(invalid_chars, 5), 0)
             ELSE IF cleaned = <<>> THEN Err("EmptyInput", <<>>, 0)
             ELSE IF Len(cleaned) > MAX_BITS
             THEN Err("TooLong", <<>>, Len(cleaned))
             ELSE Ok([k \in 1..Len(cleaned) |-> cleaned[k] = "1"])

\* bytes to bits, least-significant bit first
bytes_to_bits_lsb(bytes) ==
    [k \in 1..(Len(bytes) * 8) |->
        BitAnd(Shr(bytes[((k - 1) \div 8) + 1], (k - 1) % 8), 1) = 1]

\* lib.rs 121-129: for each byte, i = 7 down to 0, (byte >> i) & 1 == 1
bytes_to_bits(bytes) ==
    [k \in 1..(Len(bytes) * 8) |->
        BitAnd(Shr(bytes[((k - 1) \div 8) + 1], 7 - ((k - 1) % 8)), 1) = 1]

\* the value of one hex digit, -1 for any other character
DigitValue(c) ==
    IF \E k \in 1..16 : c = HexDigits[k] THEN (CHOOSE k \in 1..16 : c = HexDigits[k]) - 1
    ELSE IF \E k \in 11..16 : c = LowerHex[k]
         THEN (CHOOSE k \in 11..16 : c = LowerHex[k]) - 1
    ELSE -1

\* u8::from_str_radix(two characters, 16): the byte, or -1 for Err
from_str_radix(c1, c2) ==
    IF DigitValue(c1) < 0 \/ DigitValue(c2) < 0 THEN -1
    ELSE DigitValue(c1) * 16 + DigitValue(c2)

IsHexInvalid(c) == ~IsAsciiHexdigit(c) /\ ~IsWhitespace(c)

\* lib.rs 65-118.  The two "empty" messages (67, 90) are both EmptyInput.
parse_hex_input(input) ==
    IF Trim(input) = <<>> THEN Err("EmptyInput", <<>>, 0)
    ELSE LET cleaned == to_uppercase(Trim(input))
             invalid_chars == SelectSeq(cleaned, IsHexInvalid)
             hex_string == SelectSeq(cleaned, IsAsciiHexdigit)
             byte_vec == [k \in 1..(Len(hex_string) \div 2) |->
                             from_str_radix(hex_string[2 * k - 1], hex_string[2 * k])]
         IN  IF invalid_chars # <<>>
             THEN Err("InvalidCharacter", Take(invalid_chars, 5), 0)
             ELSE IF hex_string = <<>> THEN Err("EmptyInput", <<>>, 0)
             ELSE IF Len(hex_string) % 2 # 0
             THEN Err("OddLength", <<>>, Len(hex_string))
             ELSE IF \E k \in 1..Len(byte_vec) : byte_vec[k] < 0
             THEN Err("InvalidFormat", <<>>, 0)
             ELSE IF Len(byte_vec) > MAX_BYTES
             THEN Err("TooLong", <<>>, Len(byte_vec))
             ELSE Ok(bytes_to_bits(byte_vec))

(***************************************************************************)
(* Inputs of SpecParse.                                                    *)
(***************************************************************************)
RECURSIVE TextsOfLen(_)
TextsOfLen(n) ==
    IF n = 0 THEN {<<>>}
    ELSE {Append(s, c) : s \in TextsOfLen(n - 1), c \in TextChars}

TextsUpTo(n) == UNION {TextsOfLen(k) : k \in 0..n}

Run(c, n) == [k \in 1..n |-> c]

ParseInputs ==
    TextsUpTo(MaxText)
    \cup {p \o Run(d, n) : p \in TextsUpTo(MaxPrefix), d \in {"0", "1"}, n \in 0..MaxRun}

RECURSIVE ByteStringsOfLen(_)
ByteStringsOfLen(n) ==
    IF n = 0 THEN {<<>>}
    ELSE {Append(s, b) : s \in ByteStringsOfLen(n - 1), b \in ByteSamples}

\* every single byte, the short strings over ByteSamples, and those repeated
\* up to 13 bytes
ByteStrings ==
    {<<b>> : b \in 0..255}
    \cup UNION {ByteStringsOfLen(k) : k \in 1..MaxByteString}
    \cup {Repeat(p, n) : p \in ByteStringsOfLen(2), n \in 3..(MAX_BYTES + 1)}

RECURSIVE HexText(_, _, _)
\* the bytes written as two hex digits each ({:02X} or {:02x}), sep between bytes
HexText(bytes, digits, sep) ==
    IF bytes = <<>> THEN <<>>
    ELSE <<digits[(Head(bytes) \div 16) + 1], digits[(Head(bytes) % 16) + 1]>>
         \o (IF Len(bytes) > 1 THEN sep ELSE <<>>)
         \o HexText(Tail(bytes), digits, sep)

RECURSIVE BinText(_, _)
\* the bytes written as eight characters each ({:08b}), sep between bytes
BinText(bytes, sep) ==
    IF bytes = <<>> THEN <<>>
    ELSE [k \in 1..8 |-> IF (Head(bytes) \div Pow2(8 - k)) % 2 = 1 THEN "1" ELSE "0"]
         \o (IF Len(bytes) > 1 THEN sep ELSE <<>>)
         \o BinText(Tail(bytes), sep)

(***************************************************************************)
(* SpecParse: the two parsers applied to a text each.                      *)
(***************************************************************************)
InitParse ==
    /\ \/ /\ bin_text \in ParseInputs
          /\ hex_text = bin_text
          /\ src_bytes = <<>>
       \/ /\ src_bytes \in ByteStrings
          /\ \E sep \in {<<>>, <<" ">>} : bin_text = BinText(src_bytes, sep)
          /\ \E digits \in {HexDigits, LowerHex}, sep \in {<<>>, <<" ">>} :
                hex_text = HexText(src_bytes, digits, sep)
    /\ bin_parsed = Unparsed
    /\ hex_parsed = Unparsed
    /\ bits = <<>>
    /\ CrcIdle
    /\ StepIdle
    /\ BatchIdle
    /\ FrontIdle

\* parse_binary_input(bin_text)
ParseBinary ==
    /\ bin_parsed = Unparsed
    /\ bin_parsed' = parse_binary_input(bin_text)
    /\ UNCHANGED <<bits, crcVars, step, bin_text, hex_text, src_bytes, hex_parsed,
                   batchVars, frontVars>>

\* parse_hex_input(hex_text)
ParseHex ==
    /\ hex_parsed = Unparsed
    /\ hex_parsed' = parse_hex_input(hex_text)
    /\ UNCHANGED <<bits, crcVars, step, bin_text, hex_text, src_bytes, bin_parsed,
                   batchVars, frontVars>>

NextParse ==
    \/ ParseBinary
    \/ ParseHex

SpecParse == InitParse /\ [][NextParse]_vars

(***************************************************************************)
(* compute_batch_crcs_optimized(bits, iterations, verbose).                *)
(***************************************************************************)
\* the worker pool has 1..MaxThreads threads
MaxThreads == 3
\* every bit sequence of length 1..MaxBatchBits is a batch input
MaxBatchBits == 3

PARALLEL_MIN == 100000
MAX_ITERATIONS == 1000000000

IterationSamples ==
    {1, 2, 3, 1000, PARALLEL_MIN - 1, PARALLEL_MIN, PARALLEL_MIN + 1, 100003,
     1000000, MAX_ITERATIONS - 1, MAX_ITERATIONS}

BatchInputs ==
    (BitSeqsUpTo(MaxBatchBits) \ {<<>>})
    \cup {Repeat(p, n) : p \in {<<TRUE>>, <<FALSE>>, <<TRUE, FALSE, FALSE>>},
                         n \in {8, 17, MAX_BITS}}

Max(a, b) == IF a > b THEN a ELSE b

\* lib.rs 225: (iterations as usize / num_threads).max(1)
chunk_size == Max(iterations \div num_threads, 1)

\* lib.rs 230
WorkerStart(thread_idx) == thread_idx * chunk_size


\* a worker's range running one past the start of the next worker's
WorkerEndInclusive(thread_idx) ==
    IF thread_idx = num_threads - 1
    THEN iterations
    ELSE (thread_idx + 1) * chunk_size + 1

\* every worker's range ending at (thread_idx + 1) * chunk_size, the last one's too
WorkerEndEven(thread_idx) == (thread_idx + 1) * chunk_size

\* lib.rs 231-235
WorkerEnd(thread_idx) ==
    IF thread_idx = num_threads - 1 THEN iterations ELSE (thread_idx + 1) * chunk_size

\* lib.rs 237-240, 247-250: let mut crc = 0; for _ in 0..n { crc = value }
LastOfLoop(n, value) == IF n > 0 THEN value ELSE 0

\* lib.rs 237-240: local_crc after the worker's loop over start..end
WorkerValue(thread_idx) ==
    LastOfLoop(WorkerEnd(thread_idx) - WorkerStart(thread_idx),
               calculate_can_crc_optimized(bits))

\* a call with validated arguments (cli.rs 56-100, gui.rs 285-340)
InitBatch ==
    /\ bits \in BatchInputs
    /\ iterations \in IterationSamples
    /\ num_threads \in 1..MaxThreads
    /\ batch_pc = "entry"
    /\ result = 0
    /\ workers = <<>>
    /\ seq_calls = 0
    /\ batch_ret = -1
    /\ CrcIdle
    /\ StepIdle
    /\ ParseIdle
    /\ FrontIdle

\* the parallel path taken only above 100_000 iterations
UseParallelAbove(n) == n > PARALLEL_MIN

\* lib.rs 218: the test that selects the parallel path
UseParallel(n) == n >= PARALLEL_MIN

\* lib.rs 213-215
BatchSingle ==
    /\ batch_pc = "entry"
    /\ iterations = 1
    /\ batch_ret' = calculate_can_crc_optimized(bits)
    /\ seq_calls' = 1
    /\ batch_pc' = "returned"
    /\ UNCHANGED <<bits, crcVars, step, parseVars, iterations, num_threads, result,
                   workers, frontVars>>

\* lib.rs 245-252
BatchSequential ==
    /\ batch_pc = "entry"
    /\ iterations # 1
    /\ ~UseParallel(iterations)
    /\ batch_ret' = LastOfLoop(iterations, calculate_can_crc_optimized(bits))
    /\ seq_calls' = iterations
    /\ batch_pc' = "returned"
    /\ UNCHANGED <<bits, crcVars, step, parseVars, iterations, num_threads, result,
                   workers, frontVars>>

\* lib.rs 218-229: the result slot is created at 0 and one task per thread index
\* is handed to the pool
BatchSpawn ==
    /\ batch_pc = "entry"
    /\ iterations # 1
    /\ UseParallel(iterations)
    /\ result' = 0
    /\ workers' = [thread_idx \in 0..(num_threads - 1) |->
                      [pc |-> "run", start |-> 0, end |-> 0, local_crc |-> 0,
                       calls |-> 0, stores |-> 0]]
    /\ batch_pc' = "parallel"
    /\ UNCHANGED <<bits, crcVars, step, parseVars, iterations, num_threads,
                   seq_calls, batch_ret, frontVars>>

\* lib.rs 230-240: a worker computes its range and runs its loop
WorkerRun(thread_idx) ==
    /\ batch_pc = "parallel"
    /\ workers[thread_idx].pc = "run"
    /\ workers' = [workers EXCEPT ![thread_idx] =
                      [@ EXCEPT !.pc = "store",
                                !.start = WorkerStart(thread_idx),
                                !.end = WorkerEnd(thread_idx),
                                !.local_crc = WorkerValue(thread_idx),
                                !.calls = Max(WorkerEnd(thread_idx)
                                              - WorkerStart(thread_idx), 0)]]
    /\ UNCHANGED <<bits, crcVars, step, parseVars, iterations, num_threads, batch_pc,
                   result, seq_calls, batch_ret, frontVars>>

\* lib.rs 241: result.store(local_crc, Relaxed)
WorkerStore(thread_idx) ==
    /\ batch_pc = "parallel"
    /\ workers[thread_idx].pc = "store"
    /\ result' = workers[thread_idx].local_crc
    /\ workers' = [workers EXCEPT ![thread_idx] =
                      [@ EXCEPT !.pc = "done", !.stores = @ + 1]]
    /\ UNCHANGED <<bits, crcVars, step, parseVars, iterations, num_threads, batch_pc,
                   seq_calls, batch_ret, frontVars>>

AllWorkersDone == \A thread_idx \in DOMAIN workers : workers[thread_idx].pc = "done"

\* the slot read as soon as one worker has stored
JoinedAny == \E thread_idx \in DOMAIN workers : workers[thread_idx].pc = "done"

\* the slot read without waiting for the workers
JoinedNever == TRUE

\* lib.rs 242: for_each returns when every task has finished
Joined == AllWorkersDone

\* lib.rs 244: result.load(Relaxed)
BatchJoin ==
    /\ batch_pc = "parallel"
    /\ Joined
    /\ batch_ret' = result
    /\ batch_pc' = "returned"
    /\ UNCHANGED <<bits, crcVars, step, parseVars, iterations, num_threads, result,
                   workers, seq_calls, frontVars>>

NextBatch ==
    \/ BatchSingle
    \/ BatchSequential
    \/ BatchSpawn
    \/ \E thread_idx \in DOMAIN workers : WorkerRun(thread_idx)
    \/ \E thread_idx \in DOMAIN workers : WorkerStore(thread_idx)
    \/ BatchJoin

SpecBatch == InitBatch /\ [][NextBatch]_vars

\* both engine entry points and the batch runner
InitEngine == InitCrc \/ InitBatch

NextEngine == NextCrc \/ NextBatch

SpecEngine == InitEngine /\ [][NextEngine]_vars

(***************************************************************************)
(* The front-ends: the CLI prompt loop (cli.rs) and CanCrcApp (gui.rs).    *)
(***************************************************************************)
Digits(n) ==
    LET RECURSIVE D(_)
        D(m) == IF m < 10 THEN <<HexDigits[m + 1]>>
                ELSE Append(D(m \div 10), HexDigits[(m % 10) + 1])
    IN  D(n)

U64_MAX_DIGITS ==
    <<"1", "8", "4", "4", "6", "7", "4", "4", "0", "7",
      "3", "7", "0", "9", "5", "5", "1", "6", "1", "5">>

\* lines and field texts the user supplies
DataTexts ==
    {<<>>, <<" ">>, <<"1", "0", " ", "1">>, <<"1", "g">>, <<"b", "F">>, <<"F">>,
     <<"U+FB00">>, Run("1", MAX_BITS + 1), Run("F", 2 * MAX_BYTES + 2)}

IterationTexts ==
    {<<>>, <<"0">>, <<"1">>, <<"x">>, <<"+", "5">>, <<"-", "1">>, <<" ", "7", " ">>,
     Digits(PARALLEL_MIN - 1), Digits(PARALLEL_MIN), Digits(MAX_ITERATIONS),
     Digits(MAX_ITERATIONS + 1), Append(U64_MAX_DIGITS, "0")}

RECURSIVE StripZeros(_)
StripZeros(d) == IF Len(d) > 1 /\ Head(d) = "0" THEN StripZeros(Tail(d)) ELSE d

RECURSIVE DigitsLess(_, _)
\* a < b for two digit strings of the same length
DigitsLess(a, b) ==
    IF a = <<>> THEN FALSE
    ELSE IF DigitValue(Head(a)) # DigitValue(Head(b))
         THEN DigitValue(Head(a)) < DigitValue(Head(b))
         ELSE DigitsLess(Tail(a), Tail(b))

RECURSIVE DecimalValue(_, _)
\* the value of a digit string; values above 2 * 10^9 are kept as 2 * 10^9 + 1,
\* which every comparison the callers make (0, 10^9) treats like the true value
DecimalValue(d, acc) ==
    IF d = <<>> THEN acc
    ELSE IF acc > 200000000 THEN 2000000001
    ELSE DecimalValue(Tail(d), acc * 10 + DigitValue(Head(d)))

\* str::parse::<u64>: an optional "+", then one or more ASCII digits, no
\* overflow past u64::MAX; -1 for Err
ParseU64(s) ==
    LET d == IF s # <<>> /\ Head(s) = "+" THEN Tail(s) ELSE s
        sig == StripZeros(d)
    IN  IF d = <<>> \/ \E k \in 1..Len(d) : ~IsAsciiDigit(d[k]) THEN -1
        ELSE IF Len(sig) > 20 \/ (Len(sig) = 20 /\ DigitsLess(U64_MAX_DIGITS, sig))
        THEN -1
        ELSE DecimalValue(sig, 0)

Invoke(bs, n) == [ok |-> TRUE, err |-> "", bits |-> bs, iterations |-> n]
Reject(kind) == [ok |-> FALSE, err |-> kind, bits |-> <<>>, iterations |-> 0]

\* cli.rs 56-62: the iteration count, -1 when the loop continues
CliIterations(iterations_input) ==
    LET n == ParseU64(Trim(iterations_input))
    IN  IF n >= 1 /\ n <= MAX_ITERATIONS THEN n ELSE -1

\* cli.rs 56-100: what one pass of the loop does with the data line and the
\* iteration line
CliValidate(format, data_input, iterations_input) ==
    LET n == CliIterations(iterations_input)
        parsed == IF format = "Binary" THEN parse_binary_input(data_input)
                  ELSE parse_hex_input(data_input)
    IN  IF n < 0 THEN Reject("IterationsOutOfRange")
        ELSE IF ~parsed.ok THEN Reject(parsed.err)
        ELSE IF parsed.bits = <<>> THEN Reject("EmptyInput")
        ELSE Invoke(parsed.bits, n)

\* the GUI's iteration check without the upper limit
GuiIterationsNoMax(iterations_input) ==
    LET n == ParseU64(Trim(iterations_input))
    IN  IF n < 0
        THEN Reject(IF iterations_input = <<>> THEN "IterationsMissing"
                    ELSE "IterationsInvalid")
        ELSE IF n = 0 THEN Reject("IterationsZero")
        ELSE Invoke(<<>>, n)

\* gui.rs 314-337
GuiIterations(iterations_input) ==
    LET n == ParseU64(Trim(iterations_input))
    IN  IF n < 0
        THEN Reject(IF iterations_input = <<>> THEN "IterationsMissing"
                    ELSE "IterationsInvalid")
        ELSE IF n = 0 THEN Reject("IterationsZero")
        ELSE IF n > MAX_ITERATIONS THEN Reject("IterationsTooLarge")
        ELSE Invoke(<<>>, n)

\* gui.rs 285-337: what calculate_crc does before it calls the engine
GuiValidate(g) ==
    LET parsed == IF g.input_format = "Binary" THEN parse_binary_input(g.binary_input)
                  ELSE parse_hex_input(g.hex_input)
        n == GuiIterations(g.iterations_input)
    IN  IF ~parsed.ok THEN Reject(parsed.err)
        ELSE IF parsed.bits = <<>> THEN Reject("EmptyInput")
        ELSE IF ~n.ok THEN n
        ELSE Invoke(parsed.bits, n.iterations)

\* gui.rs 20-37: CanCrcApp::default()
GuiDefault ==
    [input_format |-> "Hex", binary_input |-> <<>>, hex_input |-> <<>>,
     iterations_input |-> <<>>, result |-> -1, error_message |-> "",
     is_calculating |-> FALSE]

\* cli.rs 24-25: the top of the loop
CliStart ==
    [pc |-> "format", format |-> "none", data_input |-> <<>>,
     iterations_input |-> <<>>, out |-> ""]

InitFront ==
    /\ frontend \in {"cli", "gui"}
    /\ cli = CliStart
    /\ gui = GuiDefault
    /\ bits = <<>>
    /\ iterations = 0
    /\ num_threads \in 1..MaxThreads
    /\ batch_pc = "idle"
    /\ result = 0
    /\ workers = <<>>
    /\ seq_calls = 0
    /\ batch_ret = -1
    /\ CrcIdle
    /\ StepIdle
    /\ ParseIdle

\* compute_batch_crcs_optimized(&bits, iterations, ..) is entered
EngineCall(bs, n) ==
    /\ bits' = bs
    /\ iterations' = n
    /\ batch_pc' = "entry"
    /\ result' = 0
    /\ workers' = <<>>
    /\ seq_calls' = 0
    /\ batch_ret' = -1
    /\ UNCHANGED num_threads

\* the call has returned and its frame is gone
EngineReturn ==
    /\ bits' = <<>>
    /\ iterations' = 0
    /\ batch_pc' = "idle"
    /\ result' = 0
    /\ workers' = <<>>
    /\ seq_calls' = 0
    /\ batch_ret' = -1
    /\ UNCHANGED num_threads

\* gui.rs 47-51: the format radio buttons
GuiSelectFormat ==
    /\ frontend = "gui"
    /\ batch_pc = "idle"
    /\ \E f \in {"Binary", "Hex"} :
          /\ f # gui.input_format
          /\ gui' = [gui EXCEPT !.input_format = f]
    /\ UNCHANGED <<bits, crcVars, step, parseVars, batchVars, frontend, cli>>

\* gui.rs 59-68: the binary field changes and is filtered to whitespace, 0, 1
GuiEditBinary ==
    /\ frontend = "gui"
    /\ batch_pc = "idle"
    /\ gui.input_format = "Binary"
    /\ \E t \in DataTexts :
          gui' = [gui EXCEPT !.binary_input =
                     SelectSeq(t, LAMBDA c : IsWhitespace(c) \/ c = "0" \/ c = "1")]
    /\ UNCHANGED <<bits, crcVars, step, parseVars, batchVars, frontend, cli>>

\* gui.rs 81-88: the hex field changes and is upper-cased
GuiEditHex ==
    /\ frontend = "gui"
    /\ batch_pc = "idle"
    /\ gui.input_format = "Hex"
    /\ \E t \in DataTexts : gui' = [gui EXCEPT !.hex_input = to_uppercase(t)]
    /\ UNCHANGED <<bits, crcVars, step, parseVars, batchVars, frontend, cli>>

\* gui.rs 104-113: the iteration field changes and is filtered to ASCII digits
GuiEditIterations ==
    /\ frontend = "gui"
    /\ batch_pc = "idle"
    /\ \E t \in IterationTexts :
          gui' = [gui EXCEPT !.iterations_input = SelectSeq(t, IsAsciiDigit)]
    /\ UNCHANGED <<bits, crcVars, step, parseVars, batchVars, frontend, cli>>

\* gui.rs 126-128, 281-340: the button is clicked; calculate_crc validates and
\* either returns with an error message or calls the engine
GuiCalculate ==
    /\ frontend = "gui"
    /\ batch_pc = "idle"
    /\ ~gui.is_calculating
    /\ LET v == GuiValidate(gui)
       IN  IF v.ok
           THEN /\ gui' = [gui EXCEPT !.error_message = "", !.is_calculating = TRUE]
                /\ EngineCall(v.bits, v.iterations)
           ELSE /\ gui' = [gui EXCEPT !.error_message = v.err,
                                      !.is_calculating = FALSE]
                /\ UNCHANGED <<bits, batchVars>>
    /\ UNCHANGED <<crcVars, step, parseVars, frontend, cli>>

\* gui.rs 340-346: the engine has returned
GuiFinish ==
    /\ frontend = "gui"
    /\ batch_pc = "returned"
    /\ gui' = [gui EXCEPT !.result = batch_ret, !.is_calculating = FALSE]
    /\ EngineReturn
    /\ UNCHANGED <<crcVars, step, parseVars, frontend, cli>>

\* cli.rs 25-40: the format line; a read error or an unknown word restarts the
\* loop, "exit" leaves it
CliReadFormat ==
    /\ frontend = "cli"
    /\ cli.pc = "format"
    /\ \E word \in {"hex", "bin", "exit", "other", "read error"} :
          cli' = IF word = "hex" THEN [cli EXCEPT !.pc = "data", !.format = "Hex"]
                 ELSE IF word = "bin"
                 THEN [cli EXCEPT !.pc = "data", !.format = "Binary"]
                 ELSE IF word = "exit" THEN [cli EXCEPT !.pc = "exited"]
                 ELSE [cli EXCEPT !.pc = "format", !.out = "InvalidFormat"]
    /\ UNCHANGED <<bits, crcVars, step, parseVars, batchVars, frontend, gui>>

\* cli.rs 42-48: the data line, trimmed; a read error restarts the loop
CliReadData ==
    /\ frontend = "cli"
    /\ cli.pc = "data"
    /\ \/ \E line \in DataTexts :
             cli' = [cli EXCEPT !.pc = "iterations", !.data_input = Trim(line)]
       \/ cli' = [cli EXCEPT !.pc = "format", !.out = "ReadError"]
    /\ UNCHANGED <<bits, crcVars, step, parseVars, batchVars, frontend, gui>>

\* cli.rs 50-100: the iteration line; a read error or a failed validation
\* restarts the loop, otherwise the engine is called
CliReadIterations ==
    /\ frontend = "cli"
    /\ cli.pc = "iterations"
    /\ batch_pc = "idle"
    /\ \/ \E line \in IterationTexts :
             LET v == CliValidate(cli.format, cli.data_input, line)
             IN  IF v.ok
                 THEN /\ cli' = [cli EXCEPT !.pc = "computing", !.out = "",
                                             !.iterations_input = line]
                      /\ EngineCall(v.bits, v.iterations)
                 ELSE /\ cli' = [cli EXCEPT !.pc = "format", !.out = v.err,
                                             !.iterations_input = line]
                      /\ UNCHANGED <<bits, batchVars>>
       \/ /\ cli' = [cli EXCEPT !.pc = "format", !.out = "ReadError"]
          /\ UNCHANGED <<bits, batchVars>>
    /\ UNCHANGED <<crcVars, step, parseVars, frontend, gui>>

\* cli.rs 100-128: the engine has returned; the result is printed and the loop
\* starts again
CliPrint ==
    /\ frontend = "cli"
    /\ cli.pc = "computing"
    /\ batch_pc = "returned"
    /\ cli' = [cli EXCEPT !.pc = "format", !.out = "Result"]
    /\ EngineReturn
    /\ UNCHANGED <<crcVars, step, parseVars, frontend, gui>>

NextFront ==
    \/ GuiSelectFormat
    \/ GuiEditBinary
    \/ GuiEditHex
    \/ GuiEditIterations
    \/ GuiCalculate
    \/ GuiFinish
    \/ CliReadFormat
    \/ CliReadData
    \/ CliReadIterations
    \/ CliPrint
    \/ NextBatch

SpecFront == InitFront /\ [][NextFront]_vars

(***************************************************************************)
(* Every entry point together.                                             *)
(***************************************************************************)
Init == InitCrc \/ InitFrame \/ InitStep \/ InitParse \/ InitBatch \/ InitFront

Next == NextFrame \/ NextStep \/ NextParse \/ NextFront

Spec == Init /\ [][Next]_vars

(***************************************************************************)
(* Properties.                                                             *)
(***************************************************************************)
AllZero(bs) == \A k \in 1..Len(bs) : ~bs[k]

RECURSIVE ZeroSteps(_, _)
\* the bit-serial step applied n times with input bit 0
ZeroSteps(crc, n) == IF n = 0 THEN crc ELSE ZeroSteps(BitStep(crc, FALSE), n - 1)

\* C1: for every bit sequence of length 1 to 96, once both engines have
\* returned, the table-driven result equals the bit-serial result.
C1_OptimizedEqualsReference ==
    (pc = "done" /\ Len(bits) >= 1 /\ Len(bits) <= MAX_BITS)
        => opt_result = ref_result

\* 11 full bytes through the table, then 7 trailing bits, and a non-zero CRC
C1_Witness ==
    /\ pc = "done"
    /\ Len(bits) = MAX_BITS - 1
    /\ opt_result = ref_result
    /\ opt_result > 0

\* C2: whatever the iteration count (1, the sequential path, the parallel
\* path), the pool size and the order in which the workers run and store, the
\* batch returns calculate_can_crc_optimized(bits).
C2_BatchValueIndependentOfN ==
    batch_pc = "returned" => batch_ret = calculate_can_crc_optimized(bits)

\* the parallel path with the largest count and more than one worker has
\* returned a non-zero CRC
C2_Witness ==
    /\ batch_pc = "returned"
    /\ iterations = MAX_ITERATIONS
    /\ num_threads > 1
    /\ batch_ret > 0
    /\ batch_ret = calculate_can_crc_optimized(bits)

\* C3: when the two texts render the same byte string of 1 to 12 bytes (hex
\* digits for one, eight binary characters per byte for the other), both
\* parsers succeed and return the same bits, eight per byte, hence the same CRC.
C3_HexAndBinaryAgree ==
    (/\ src_bytes # <<>>
     /\ Len(src_bytes) <= MAX_BYTES
     /\ bin_parsed # Unparsed
     /\ hex_parsed # Unparsed)
        => /\ bin_parsed.ok
           /\ hex_parsed.ok
           /\ hex_parsed.bits = bin_parsed.bits
           /\ Len(hex_parsed.bits) = 8 * Len(src_bytes)
           /\ calculate_can_crc(hex_parsed.bits) = calculate_can_crc(bin_parsed.bits)

\* twelve bytes, not all alike, parsed both ways
C3_Witness ==
    /\ Len(src_bytes) = MAX_BYTES
    /\ src_bytes[1] # src_bytes[2]
    /\ bin_parsed.ok
    /\ hex_parsed.ok
    /\ hex_parsed.bits = bin_parsed.bits

\* C4: parse_binary_input's result is decided by the text in this order: a
\* character that is neither whitespace nor 0 nor 1 gives InvalidCharacter;
\* else no 0/1 character gives EmptyInput; else more than 96 of them gives
\* TooLong; else the result is one bit per 0/1 character in order, 1 to 96 bits.
C4_BinaryClassification ==
    bin_parsed # Unparsed =>
        LET digits == SelectSeq(bin_text, LAMBDA c : c \in {"0", "1"})
            foreign == \E k \in 1..Len(bin_text) :
                          /\ ~IsWhitespace(bin_text[k])
                          /\ bin_text[k] \notin {"0", "1"}
        IN  IF foreign THEN ~bin_parsed.ok /\ bin_parsed.err = "InvalidCharacter"
            ELSE IF Len(digits) = 0 THEN ~bin_parsed.ok /\ bin_parsed.err = "EmptyInput"
            ELSE IF Len(digits) > 96 THEN ~bin_parsed.ok /\ bin_parsed.err = "TooLong"
            ELSE /\ bin_parsed.ok
                 /\ bin_parsed.bits = [k \in 1..Len(digits) |-> digits[k] = "1"]
                 /\ Len(bin_parsed.bits) \in 1..96

\* a text with whitespace and exactly 96 binary digits was accepted
C4_Witness ==
    /\ bin_parsed.ok
    /\ Len(bin_parsed.bits) = 96
    /\ Len(bin_text) > 96

\* C5: parse_hex_input's result is decided by the text in this order: a
\* character that is neither whitespace nor an ASCII hex digit gives
\* InvalidCharacter; else no hex digit gives EmptyInput; else an odd digit
\* count gives OddLength; else more than 12 bytes gives TooLong; else the
\* result has 8 bits per byte, a multiple of 8 between 8 and 96.
C5_HexClassification ==
    hex_parsed # Unparsed =>
        LET digits == SelectSeq(hex_text, IsAsciiHexdigit)
            foreign == \E k \in 1..Len(hex_text) :
                          /\ ~IsWhitespace(hex_text[k])
                          /\ ~IsAsciiHexdigit(hex_text[k])
        IN  IF foreign THEN ~hex_parsed.ok /\ hex_parsed.err = "InvalidCharacter"
            ELSE IF Len(digits) = 0 THEN ~hex_parsed.ok /\ hex_parsed.err = "EmptyInput"
            ELSE IF Len(digits) % 2 = 1
            THEN ~hex_parsed.ok /\ hex_parsed.err = "OddLength"
            ELSE IF Len(digits) \div 2 > 12
            THEN ~hex_parsed.ok /\ hex_parsed.err = "TooLong"
            ELSE /\ hex_parsed.ok
                 /\ Len(hex_parsed.bits) = 4 * Len(digits)
                 /\ Len(hex_parsed.bits) % 8 = 0
                 /\ Len(hex_parsed.bits) \in 8..96

\* C6: while the engine runs for a front-end, its arguments are what that
\* front-end's inputs validate to: the selected text parses to 1..96 bits, which
\* are the engine's bits, and the iteration text parses to an integer in
\* [1, 10^9], which is the engine's count.  After a failed validation (the GUI
\* shows an error, the CLI is back at its prompt) the engine is not running.
C6_EngineOnlyAfterValidation ==
    /\ batch_pc # "idle" =>
          /\ Len(bits) \in 1..96
          /\ iterations \in 1..1000000000
          /\ frontend = "gui" =>
                LET parsed == IF gui.input_format = "Binary"
                              THEN parse_binary_input(gui.binary_input)
                              ELSE parse_hex_input(gui.hex_input)
                IN  /\ parsed.ok
                    /\ parsed.bits = bits
                    /\ ParseU64(Trim(gui.iterations_input)) = iterations
                    /\ gui.error_message = ""
          /\ frontend = "cli" =>
                LET parsed == IF cli.format = "Binary"
                              THEN parse_binary_input(cli.data_input)
                              ELSE parse_hex_input(cli.data_input)
                IN  /\ parsed.ok
                    /\ parsed.bits = bits
                    /\ ParseU64(Trim(cli.iterations_input)) = iterations
                    /\ cli.pc = "computing"
    /\ (frontend = "gui" /\ gui.error_message # "") => batch_pc = "idle"
    /\ (frontend = "cli" /\ cli.pc # "computing") => batch_pc = "idle"

\* the GUI has just called the engine with the largest count and hex input
C6_Witness ==
    /\ frontend = "gui"
    /\ batch_pc = "entry"
    /\ gui.input_format = "Hex"
    /\ iterations = MAX_ITERATIONS
    /\ bits = bytes_to_bits(<<191>>)

\* C7: the register of either engine is in [0, 0x7FFF] after every step, every
\* table entry is, every value either engine returns is, and so is the slot,
\* every worker's value and the value the batch returns.
C7_RegisterIs15Bit ==
    /\ crc_rg \in 0..32767
    /\ \A n \in 0..255 : CRC_TABLE[n] \in 0..32767
    /\ ref_result \in -1..32767
    /\ opt_result \in -1..32767
    /\ result \in 0..32767
    /\ \A t \in DOMAIN workers : workers[t].local_crc \in 0..32767
    /\ batch_ret \in -1..32767

\* the second table step started from a register with bits above bit 6 set, so
\* its 8-bit shift left the 15 bits
C7_Witness ==
    /\ pc = "opt_bytes"
    /\ i = 2
    /\ ByteStep(0, PackByte(bits, 0)) >= 128
    /\ crc_rg \in 1..32767

\* C8: on an all-zero input of any length 0..96 the register stays 0 through
\* every step of both engines and both return 0.
C8_ZerosGiveZero ==
    (pc # "idle" /\ AllZero(bits))
        => /\ crc_rg = 0
           /\ ref_result \in {-1, 0}
           /\ opt_result \in {-1, 0}
           /\ pc = "done" => (ref_result = 0 /\ opt_result = 0)

\* 96 zero bits went through both engines
C8_Witness ==
    /\ pc = "done"
    /\ Len(bits) = MAX_BITS
    /\ AllZero(bits)
    /\ ref_result = 0
    /\ opt_result = 0

\* C9: from any 15-bit register r and for any byte B, the table step gives the
\* register that the eight bit-serial steps for B's bits, most-significant
\* first, give; and the table entry used for B is eight zero-input bit-serial
\* steps from B << 7.
C9_TableStepIsEightBitSteps ==
    (step.tbl # -1 /\ step.j = 8)
        => /\ step.tbl = step.ser
           /\ CRC_TABLE[step.byte] = ZeroSteps(Shl16(step.byte, 7) % 32768, 8)

\* a register not reachable in one byte from 0, with its top bit set
C9_Witness ==
    /\ step.r = 32767
    /\ step.byte = 165
    /\ step.j = 8
    /\ step.tbl = step.ser
    /\ step.tbl # step.r

\* C10: in the parallel path a worker has stored once exactly when it is done,
\* and never more; it stores only after its loop; the value it stores, and so
\* the slot once any worker has stored, is calculate_can_crc_optimized(bits);
\* and when the batch has returned every worker had finished and stored once.
C10_WorkersStoreOnceSameValue ==
    batch_pc \in {"parallel", "returned"} /\ iterations >= PARALLEL_MIN =>
        /\ \A t \in DOMAIN workers :
              /\ workers[t].stores = IF workers[t].pc = "done" THEN 1 ELSE 0
              /\ workers[t].pc \in {"store", "done"} =>
                    /\ workers[t].calls = workers[t].end - workers[t].start
                    /\ workers[t].calls >= 1
                    /\ workers[t].local_crc = calculate_can_crc_optimized(bits)
        /\ (\E t \in DOMAIN workers : workers[t].stores > 0)
              => result = calculate_can_crc_optimized(bits)
        /\ batch_pc = "returned" =>
              \A t \in DOMAIN workers : workers[t].pc = "done" /\ workers[t].stores = 1

\* three workers have all stored a non-zero value and the batch has returned
C10_Witness ==
    /\ batch_pc = "returned"
    /\ num_threads = 3
    /\ \A t \in DOMAIN workers : workers[t].stores = 1
    /\ result > 0

\* the workers whose loop has run
Ran == {t \in DOMAIN workers : workers[t].pc \in {"store", "done"}}

\* C11 as stated: the numbers of iterations of any two workers differ by at
\* most 1.
C11_SharesDifferByAtMostOne ==
    \A t \in Ran, u \in Ran : workers[t].calls - workers[u].calls <= 1

\* C11 as the code has it: every worker but the last performs
\* iterations / num_threads (rounded down) iterations, and the last performs
\* those plus the remainder iterations % num_threads; so two workers differ by
\* at most num_threads - 1, and by 0 among the workers before the last.
C11_LastWorkerTakesRemainder ==
    \A t \in Ran :
        /\ workers[t].calls =
              IF t = num_threads - 1
              THEN (iterations \div num_threads) + (iterations % num_threads)
              ELSE iterations \div num_threads
        /\ \A u \in Ran : workers[t].calls - workers[u].calls <= num_threads - 1

\* with 100_001 iterations on three workers the last one has run 33_335 and
\* another one 33_333
C11_Witness ==
    /\ iterations = PARALLEL_MIN + 1
    /\ num_threads = 3
    /\ {0, 2} \subseteq Ran
    /\ workers[2].calls - workers[0].calls = 2

\* C12: the strategy depends on the iteration count alone. One iteration is
\* one computation; 2..99_999 iterations are that many computations on the
\* calling thread, with no workers, and the value returned is the last one;
\* there are workers exactly when iterations >= 100_000, and then the calling
\* thread computes nothing itself. Every computation is
\* calculate_can_crc_optimized(bits), which starts from register 0, so the
\* value returned is the one a single computation gives.
C12_StrategyByIterationCount ==
    /\ workers # <<>> => iterations >= PARALLEL_MIN
    /\ batch_pc = "parallel" => workers # <<>>
    /\ batch_pc = "returned" =>
          /\ iterations = 1 => seq_calls = 1 /\ workers = <<>>
          /\ (1 < iterations /\ iterations < PARALLEL_MIN) =>
                seq_calls = iterations /\ workers = <<>>
          /\ iterations >= PARALLEL_MIN =>
                /\ seq_calls = 0
                /\ DOMAIN workers = 0..(num_threads - 1)
          /\ batch_ret = calculate_can_crc_optimized(bits)

\* 99_999 iterations have returned from the calling thread's loop, without
\* workers
C12_Witness ==
    /\ batch_pc = "returned"
    /\ iterations = PARALLEL_MIN - 1
    /\ seq_calls = PARALLEL_MIN - 1
    /\ workers = <<>>
    /\ Len(bits) > 0

\* the sum of the sizes of the ranges of workers 0 .. k - 1
RECURSIVE SizeSum(_)
SizeSum(k) ==
    IF k = 0 THEN 0
    ELSE SizeSum(k - 1) + (workers[k - 1].end - workers[k - 1].start)

\* C13: with 100_000 <= iterations <= 1_000_000_000 and 1 <= num_threads <=
\* iterations, the ranges [start, end) of the workers are non-empty and
\* pairwise disjoint, every worker has made at least one computation when it
\* stores, and once every worker has its range the sizes sum to iterations.
C13_RangesPartitionIterations ==
    (/\ PARALLEL_MIN <= iterations
     /\ iterations <= MAX_ITERATIONS
     /\ num_threads <= iterations) =>
        /\ \A t \in Ran :
              /\ workers[t].start < workers[t].end
              /\ workers[t].calls = workers[t].end - workers[t].start
              /\ workers[t].calls >= 1
        /\ \A t \in Ran, u \in Ran :
              t # u => \/ workers[t].end <= workers[u].start
                       \/ workers[u].end <= workers[t].start
        /\ (workers # <<>> /\ Ran = DOMAIN workers) =>
              SizeSum(num_threads) = iterations

\* three workers have their ranges of 10^9 - 1 iterations, the ranges meet
\* end to start, and the last one ends at iterations
C13_Witness ==
    /\ iterations = MAX_ITERATIONS - 1
    /\ num_threads = 3
    /\ Ran = {0, 1, 2}
    /\ workers[0].start = 0
    /\ workers[0].end = workers[1].start
    /\ workers[1].end = workers[2].start
    /\ workers[2].end = iterations
    /\ workers[0].end > 0

\* C14: a payload of 1..81 bits followed by the 15 bits of its
\* calculate_can_crc, bit 14 first, has CRC 0 under calculate_can_crc and
\* under calculate_can_crc_optimized. The first conjunct says that the
\* engines' input is such a sequence: when the reference loop has consumed
\* all but the last 15 bits, those are the bits of its register.
C14_FrameWithCrcGivesZero ==
    /\ (pc = "ref_loop" /\ i = Len(bits) - CRC_BITS) =>
          /\ i >= 1
          /\ i <= MAX_BITS - CRC_BITS
          /\ SubSeq(bits, i + 1, Len(bits)) = Crc15Bits(crc_rg)
    /\ ref_result # -1 => ref_result = 0
    /\ opt_result # -1 => opt_result = 0

\* both engines have returned 0 on a sequence of 81 payload bits, not all
\* zero, and 15 CRC bits, not all zero
C14_Witness ==
    /\ pc = "done"
    /\ Len(bits) = MAX_BITS
    /\ \E k \in 1..(MAX_BITS - CRC_BITS) : bits[k]
    /\ \E k \in (MAX_BITS - CRC_BITS + 1)..MAX_BITS : bits[k]
    /\ ref_result = 0
    /\ opt_result = 0

====
